---- MODULE Spec2Model ----
(***************************************************************************)
(* Model of the cylc job-submission code:                                  *)
(*   - SLURMHandler (cylc/flow/batch_sys_handlers/slurm.py): directive     *)
(*     formatting, poll-output filtering, submit-output id pattern;        *)
(*   - job_submit (src/job-submission/job_submit.py): construction and     *)
(*     local / remote submission of one task's job file;                   *)
(*   - WorkflowRuntimeServer (cylc/flow/network/server.py): the dispatch   *)
(*     of one incoming message to a method of the server.                  *)
(* Text is modelled as a sequence of one-character strings, so that the    *)
(* regular expressions and the string formatting of the code are computed  *)
(* character by character.                                                 *)
(***************************************************************************)
EXTENDS Integers, Sequences, FiniteSets, TLC

VARIABLES
    job_conf,      \* format_directives: the job_conf argument
    lines,         \* format_directives: the returned list of lines
    fmt_pc,        \* "input" before the call, "done" after it, "again"
                   \* after a second call with the same job_conf
    poll_out,      \* filter_poll_many_output: the `out` argument
    poll_ids,      \* filter_poll_many_output: the returned list
    poll_pc,
    submit_out,    \* stdout of the submit command
    submit_id,     \* identifier extracted from it (None: no match)
    submit_pc,
    simulation_mode,              \* job_submit.simulation_mode
    global_task_owner,            \* job_submit.global_task_owner
    global_remote_host,           \* job_submit.global_remote_host
    owned_task_execution_method,  \* job_submit.owned_task_execution_method
    joblog_dir,                   \* job_submit.joblog_dir, the suite's job log directory
    task_joblog_dir,  \* the job log directory each task's definition gives
                      \* to the constructor (None: the suite's is used)
    random_parts,     \* the random name parts the generator returns next
    cwd,           \* working directory of the process
    alive,         \* FALSE once SystemExit has ended the process
    job,           \* the job_submit object of each task and its progress
    message,       \* _receiver: the message argument (a mapping of the caller)
    response,      \* _receiver: the dictionary returned
    call,          \* _receiver: the method looked up, and what calling it did
    receiver_exc,  \* exception that left _receiver (PyNone: it returned)
    srv_pc

fmt_vars  == <<job_conf, lines, fmt_pc>>
poll_vars == <<poll_out, poll_ids, poll_pc>>
sid_vars  == <<submit_out, submit_id, submit_pc>>
class_vars == <<simulation_mode, global_task_owner, global_remote_host,
                owned_task_execution_method, joblog_dir>>
sub_vars  == <<class_vars, task_joblog_dir, random_parts, cwd, alive, job>>
srv_vars  == <<message, response, call, receiver_exc, srv_pc>>

\* Python's None where a text is expected: no text is equal to it
None == <<"None">>

\* An optional number is <<>> (None) or <<n>>
NoNumber == <<>>
Some(n) == <<n>>

(***************************************************************************)
(* Characters and text helpers                                             *)
(***************************************************************************)
Digits == {"0", "1", "2", "3", "4", "5", "6", "7", "8", "9"}

\* str.isspace characters that \s matches (ASCII part)
Whitespace == {" ", "\t", "\n", "\r", "\f"}

\* value of a decimal digit character
DigitVal(c) ==
    CASE c = "0" -> 0 [] c = "1" -> 1 [] c = "2" -> 2 [] c = "3" -> 3
      [] c = "4" -> 4 [] c = "5" -> 5 [] c = "6" -> 6 [] c = "7" -> 7
      [] c = "8" -> 8 [] c = "9" -> 9

DigitChars == <<"0", "1", "2", "3", "4", "5", "6", "7", "8", "9">>

\* s[from..] (1-based), empty when from > Len(s)
Drop(s, n) == SubSeq(s, n + 1, Len(s))
Take(s, n) == SubSeq(s, 1, n)

\* s starts with p
StartsWith(s, p) == Len(s) >= Len(p) /\ Take(s, Len(p)) = p

\* length of the maximal run of characters of `set` at the start of s
RECURSIVE RunLen(_, _)
RunLen(s, set) ==
    IF s # <<>> /\ Head(s) \in set THEN 1 + RunLen(Tail(s), set) ELSE 0

\* "%d" % n for n >= 0
RECURSIVE FormatD(_)
FormatD(n) ==
    IF n < 10 THEN <<DigitChars[n + 1]>>
    ELSE FormatD(n \div 10) \o <<DigitChars[(n % 10) + 1]>>

\* "%02d" % n for n >= 0: zero-padded to a width of at least two
Format02D(n) ==
    IF n < 10 THEN <<"0">> \o FormatD(n) ELSE FormatD(n)

\* str.replace('%', '%%')
RECURSIVE ReplacePercent(_)
ReplacePercent(s) ==
    IF s = <<>> THEN <<>>
    ELSE (IF Head(s) = "%" THEN <<"%", "%">> ELSE <<Head(s)>>)
         \o ReplacePercent(Tail(s))

(***************************************************************************)
(* Ordered mappings (dict / OrderedDict): a sequence of <<key, value>>     *)
(* pairs with distinct keys, in insertion order.                           *)
(***************************************************************************)
DictKeys(d) == [i \in 1..Len(d) |-> d[i][1]]
DictKeySet(d) == {d[i][1] : i \in 1..Len(d)}

\* d.get(key): the value, or None
DictGet(d, key) ==
    IF key \in DictKeySet(d)
    THEN LET i == CHOOSE j \in 1..Len(d) : d[j][1] = key IN d[i][2]
    ELSE None

\* a wrong d[key] = value: an existing key keeps its old value
DictSetKeepOld(d, key, value) ==
    IF key \in DictKeySet(d) THEN d ELSE Append(d, <<key, value>>)

\* d[key] = value: an existing key keeps its position and takes the new
\* value, a new key is appended
DictSet(d, key, value) ==
    IF key \in DictKeySet(d)
    THEN [i \in 1..Len(d) |-> IF d[i][1] = key THEN <<key, value>> ELSE d[i]]
    ELSE Append(d, <<key, value>>)

\* for key, value in src.items(): d[key] = value
RECURSIVE DictUpdate(_, _)
DictUpdate(d, src) ==
    IF src = <<>> THEN d
    ELSE DictUpdate(DictSet(d, Head(src)[1], Head(src)[2]), Tail(src))

(***************************************************************************)
(* os.path.expandvars: $NAME and ${NAME} are replaced by the value of the  *)
(* environment variable when it is set, and left alone otherwise.          *)
(***************************************************************************)
VarNameChars == {"H", "O", "M", "E", "T", "_"} \cup Digits

\* the process environment (os.environ)
Environ ==
    (<<"H">> :> <<"/", "h">>) @@ (<<"H", "O", "M", "E">> :> <<"/", "s">>)

RECURSIVE expandvars(_)
expandvars(s) ==
    IF s = <<>> THEN <<>>
    ELSE IF Head(s) # "$" THEN <<Head(s)>> \o expandvars(Tail(s))
    ELSE LET rest == Tail(s)
             n == RunLen(rest, VarNameChars)
             close == IF rest # <<>> /\ Head(rest) = "{"
                         /\ \E i \in 2..Len(rest) : rest[i] = "}"
                      THEN CHOOSE i \in 2..Len(rest) :
                               /\ rest[i] = "}"
                               /\ \A j \in 2..(i - 1) : rest[j] # "}"
                      ELSE 0
         IN  IF n > 0
             THEN (IF Take(rest, n) \in DOMAIN Environ
                   THEN Environ[Take(rest, n)]
                   ELSE <<"$">> \o Take(rest, n))
                  \o expandvars(Drop(rest, n))
             ELSE IF close > 0
             THEN (IF SubSeq(rest, 2, close - 1) \in DOMAIN Environ
                   THEN Environ[SubSeq(rest, 2, close - 1)]
                   ELSE <<"$">> \o Take(rest, close))
                  \o expandvars(Drop(rest, close))
             ELSE <<"$">> \o expandvars(rest)

(***************************************************************************)
(* SLURMHandler: class attributes                                          *)
(***************************************************************************)
DIRECTIVE_PREFIX == <<"#", "S", "B", "A", "T", "C", "H", " ">>
SEP_HETJOB == <<"#", "S", "B", "A", "T", "C", "H", " ", "h", "e", "t", "j", "o", "b">>

HETJOB_WORD == <<"h", "e", "t", "j", "o", "b", "_">>

\* REC_HETJOB = ^hetjob_(\d+)_ : the length of the match at the start of
\* key, 0 when there is none
REC_HETJOB_match(key) ==
    IF StartsWith(key, HETJOB_WORD)
    THEN LET r == RunLen(Drop(key, Len(HETJOB_WORD)), Digits)
             e == Len(HETJOB_WORD) + r + 1
         IN  IF r > 0 /\ Len(key) >= e /\ key[e] = "_" THEN e ELSE 0
    ELSE 0

\* m.groups()[0]: the digits of the match
REC_HETJOB_group(key) ==
    SubSeq(key, Len(HETJOB_WORD) + 1, REC_HETJOB_match(key) - 1)

\* REC_HETJOB.sub('', key)
REC_HETJOB_sub(key) == Drop(key, REC_HETJOB_match(key))

KEY_JOB_NAME == <<"-", "-", "j", "o", "b", "-", "n", "a", "m", "e">>
KEY_OUTPUT == <<"-", "-", "o", "u", "t", "p", "u", "t">>
KEY_ERROR == <<"-", "-", "e", "r", "r", "o", "r">>
KEY_TIME == <<"-", "-", "t", "i", "m", "e">>

(***************************************************************************)
(* SLURMHandler.format_directives                                          *)
(***************************************************************************)
\* a wrong time format: the seconds are not zero-padded
TimeValueNoPad(limit) ==
    FormatD(limit \div 60) \o <<":">> \o FormatD(limit % 60)

\* "%d:%02d" % (limit / 60, limit % 60)
TimeValue(limit) ==
    FormatD(limit \div 60) \o <<":">> \o Format02D(limit % 60)

\* truth value of job_conf["execution_time_limit"]
LimitIsSet(limit) == limit # NoNumber /\ limit[1] # 0

\* a wrong start: the local `directives` is the caller's mapping itself
WorkingDirectivesAliased(conf) ==
    [object |-> "caller", items |-> conf.directives]

\* directives = job_conf['directives'].__class__(): a new and empty mapping
\* of the class of the caller's mapping, which is a different object
WorkingDirectives(conf) == [object |-> "new", items |-> <<>>]

\* the `directives` mapping after the injections and the copy of the user's
\* directives (the statements before the loop that builds the lines)
MergedDirectives(conf) ==
    LET job_file_path == expandvars(conf.job_file_path)
        d0 == WorkingDirectives(conf).items
        d1 == DictSet(d0, KEY_JOB_NAME,
                      conf.task_id \o <<".">> \o conf.suite_name)
        d2 == DictSet(d1, KEY_OUTPUT,
                      ReplacePercent(job_file_path) \o <<".", "o", "u", "t">>)
        d3 == DictSet(d2, KEY_ERROR,
                      ReplacePercent(job_file_path) \o <<".", "e", "r", "r">>)
        d4 == IF LimitIsSet(conf.execution_time_limit)
                 /\ DictGet(d3, KEY_TIME) = None
              THEN DictSet(d3, KEY_TIME, TimeValue(conf.execution_time_limit[1]))
              ELSE d3
    IN  DictUpdate(d4, conf.directives)

\* a wrong prefix removal: the key is emitted with its hetjob_<N>_ prefix
NewKeyUnstripped(key) == key

\* newkey of the loop: the key without its hetjob_<N>_ prefix
NewKey(key) ==
    IF REC_HETJOB_match(key) > 0 THEN REC_HETJOB_sub(key) ELSE key

\* the line of one directive
DirectiveLine(key, value) ==
    IF value # <<>> /\ value # None
    THEN DIRECTIVE_PREFIX \o NewKey(key) \o <<"=">> \o value
    ELSE DIRECTIVE_PREFIX \o NewKey(key)

\* a wrong separator test: the `seen` set is not consulted
NeedsSeparatorIgnoringSeen(key, seen) ==
    /\ REC_HETJOB_match(key) > 0
    /\ REC_HETJOB_group(key) # <<"0">>

\* n != "0" and n not in seen
NeedsSeparator(key, seen) ==
    /\ REC_HETJOB_match(key) > 0
    /\ REC_HETJOB_group(key) # <<"0">>
    /\ REC_HETJOB_group(key) \notin seen

\* the loop over directives.items(), from the item list d with `seen`
RECURSIVE FormatLoop(_, _)
FormatLoop(d, seen) ==
    IF d = <<>> THEN <<>>
    ELSE LET key == Head(d)[1]
             value == Head(d)[2]
             seen2 == IF REC_HETJOB_match(key) > 0
                      THEN seen \cup {REC_HETJOB_group(key)}
                      ELSE seen
         IN  (IF NeedsSeparator(key, seen) THEN <<SEP_HETJOB>> ELSE <<>>)
             \o <<DirectiveLine(key, value)>>
             \o FormatLoop(Tail(d), seen2)

\* a wrong formatter: a directive with an empty value gets no line
format_directives_SkipEmpty(conf) ==
    FormatLoop(SelectSeq(MergedDirectives(conf), LAMBDA p : p[2] # <<>>), {})

\* format_directives(job_conf): the list of directive lines
format_directives(conf) == FormatLoop(MergedDirectives(conf), {})

\* the caller's job_conf after format_directives(job_conf): the function
\* assigns to no key of job_conf, and the items it sets go to the local
\* `directives`, which are the caller's only if that is the same object
JobConfAfter(conf) ==
    IF WorkingDirectives(conf).object = "caller"
    THEN [conf EXCEPT !.directives = MergedDirectives(conf)]
    ELSE conf

(***************************************************************************)
(* job_submit: the tasks, the identities and the state of one object       *)
(***************************************************************************)
Tasks == {"t1", "t2"}

\* Python's None where a name is expected
PyNone == "None"

\* an instance attribute that no statement has assigned yet
Unset == "unset"

\* os.environ['USER']
SUITE_OWNER == "suite"

\* the password database: pwd.getpwnam(name)[5] for the names it knows
Passwd == ("suite" :> <<"/", "s">>) @@ ("alice" :> <<"/", "a">>)

\* os.environ['HOME']
HOME == Environ[<<"H", "O", "M", "E">>]

\* an attribute holding a text that no statement has assigned yet
UnsetText == <<"unset">>

\* task_owner and remote_host arguments of the constructor
TaskOwnerArgs == {PyNone, "alice", "ghost"}
RemoteHostArgs == {PyNone, "hostA"}

\* The class of the object: job_submit itself, a derived class that
\* overrides construct_jobfile_submission_command, or a derived class that
\* also defines the attributes remote_cylc_dir and remote_suite_dir
Classes == {"job_submit", "derived", "derived_dirs"}

\* results of subprocess.call: a return code, or OSError raised
OSError == <<"OSError", "spawn">>
CallResults == { <<-9>>, <<0>>, <<1>>, OSError }

\* a file path: directory and base name
UnsetPath == [dir |-> Unset, base |-> Unset]
PathText(p) == p.dir \o "/" \o p.base

\* os.path.basename
basename(p) == p.base

NewJob ==
    [ pc |-> "new",                \* where the task's submission is
      class |-> Unset,
      arg_task_owner |-> PyNone,   \* the task_owner argument of the constructor
      arg_remote_host |-> PyNone,  \* the remote_host argument of the constructor
      task_owner |-> Unset,
      other_owner |-> FALSE,
      local_job_submit |-> FALSE,
      remote_host |-> Unset,
      homedir |-> UnsetText,
      joblog_dir |-> UnsetText,
      stdout_file |-> UnsetText,
      stderr_file |-> UnsetText,
      logfiles |-> <<>>,           \* paths given to self.logfiles.add_path
      remote_cylc_dir |-> Unset,   \* stands for remote_suite_dir too
      dry_run |-> FALSE,
      changed_dir |-> FALSE,       \* the local variable `changed_dir`
      jobfile_path |-> UnsetPath,
      local_jobfile_path |-> UnsetPath,
      remote_jobfile_path |-> UnsetPath,
      command |-> <<>>,
      command_1 |-> <<>>,          \* the local variable `command_1` (scp)
      success |-> PyNone,          \* the local variable `success`
      calls |-> <<>>,              \* subprocess.call invocations: <<kind, result>>
      returned |-> PyNone,         \* return value of submit()
      exc |-> PyNone,              \* exception that left the constructor or submit()
      bg |-> "none",               \* job detached into the background by the command
      call_cwd |-> UnsetText ]     \* working directory in which the command was run

SubIdle ==
    /\ simulation_mode = FALSE
    /\ global_task_owner = PyNone
    /\ global_remote_host = PyNone
    /\ owned_task_execution_method = PyNone
    /\ joblog_dir = <<"/", "s", "/", "l">>
    /\ task_joblog_dir = [t \in Tasks |-> None]
    /\ random_parts = <<>>
    /\ cwd = <<"/">>
    /\ alive = TRUE
    /\ job = [t \in Tasks |-> NewJob]

(***************************************************************************)
(* WorkflowRuntimeServer: messages, attributes and responses               *)
(***************************************************************************)
\* A value of a message: a key that the message does not have, a string,
\* a value that is not a string (a number, say), a mapping with the keys
\* `keys`, or a list
Absent == [type |-> "absent", val |-> "", keys |-> {}]
Str(s) == [type |-> "str", val |-> s, keys |-> {}]
NotStr == [type |-> "int", val |-> "5", keys |-> {}]
Dict(keys) == [type |-> "dict", val |-> "", keys |-> keys]
List == [type |-> "list", val |-> "", keys |-> {}]

\* the methods defined with the expose decorator
ExposedEndpoints ==
    {"api", "graphql", "pb_entire_workflow", "pb_data_elements"}

\* the functions of the class defined without expose, each with its
\* parameters after self (none of them has a default or takes **kwargs)
UnexposedParams ==
    ("__init__" :> {"schd"}) @@ ("configure" :> {}) @@ ("start" :> {})
    @@ ("stop" :> {"reason"}) @@ ("responder" :> {"message"})
    @@ ("_receiver" :> {"message"}) @@ ("register_endpoints" :> {})

\* the functions defined with `async def`: a call with fitting arguments
\* returns a coroutine and does not run the body
CoroutineFunctions == {"start", "stop"}

\* attributes of the object that hold data: None or a number, None or a
\* dict, a list
DataAttributes == {"port", "endpoints", "middleware"}

\* getattr(self, name) finds an attribute
HasAttr(name) ==
    name \in ExposedEndpoints \cup DOMAIN UnexposedParams \cup DataAttributes

\* the returned dictionaries
NoResponse == [keys |-> {}, message |-> "", traceback |-> FALSE, data |-> ""]
ErrorResponse(msg, tb) ==
    [keys |-> {"error"}, message |-> msg, traceback |-> tb, data |-> ""]
DataResponse(value) ==
    [keys |-> {"data"}, message |-> "", traceback |-> FALSE, data |-> value]

\* no method was looked up
NoCall == [method |-> PyNone, body |-> FALSE, result |-> "none", value |-> ""]

SrvIdle ==
    /\ message = [command |-> Absent, args |-> Absent, user |-> Absent,
                  meta |-> Absent]
    /\ response = NoResponse
    /\ call = NoCall
    /\ receiver_exc = PyNone
    /\ srv_pc = "idle"

(***************************************************************************)
(* Inputs of format_directives                                             *)
(***************************************************************************)
\* largest number of user directives in a job_conf
MaxDirectives == 3

KEY_NODES == <<"-", "-", "n", "o", "d", "e", "s">>
KEY_MEM == <<"-", "-", "m", "e", "m">>

\* hetjob_<n>_<key>
Hetjob(n, key) == HETJOB_WORD \o n \o <<"_">> \o key

\* user directive keys: plain keys, a key that is also injected, and the
\* per-component keys of heterogeneous jobs (groups 0, 1 and 10)
UserKeys ==
    { KEY_TIME, KEY_NODES, KEY_JOB_NAME,
      Hetjob(<<"0">>, KEY_MEM), Hetjob(<<"0">>, KEY_NODES),
      Hetjob(<<"1">>, KEY_MEM), Hetjob(<<"1">>, KEY_NODES),
      Hetjob(<<"1", "0">>, KEY_MEM) }

\* user directive values: empty (a bare flag) or a text
UserValues == { <<>>, <<"0", ":", "5", "9">> }

\* execution time limits in seconds (NoNumber: not given)
Limits == {NoNumber, Some(0), Some(59), Some(3661)}

JobFilePaths == { <<"/", "j">>, <<"$", "H", "/", "%", "j">> }

\* ordered mappings of at most MaxDirectives user directives
DirectiveSets ==
    UNION { { d \in [1..n -> UserKeys \X UserValues] :
                \A i, j \in 1..n : i # j => d[i][1] # d[j][1] }
            : n \in 0..MaxDirectives }

FmtIdle ==
    /\ job_conf = [task_id |-> <<"t">>, suite_name |-> <<"s">>,
                   job_file_path |-> <<"/", "j">>,
                   execution_time_limit |-> NoNumber, directives |-> <<>>]
    /\ lines = <<>>
    /\ fmt_pc = "idle"

PollIdle == poll_out = <<>> /\ poll_ids = <<>> /\ poll_pc = "idle"

SidIdle == submit_out = <<>> /\ submit_id = None /\ submit_pc = "idle"

FmtInit ==
    /\ job_conf \in [task_id : {<<"t">>}, suite_name : {<<"s">>},
                     job_file_path : JobFilePaths,
                     execution_time_limit : Limits,
                     directives : DirectiveSets]
    /\ lines = <<>>
    /\ fmt_pc = "input"
    /\ PollIdle
    /\ SidIdle
    /\ SubIdle
    /\ SrvIdle

\* one call of SLURMHandler.format_directives(job_conf): the first, or a
\* second one with the job_conf the first has left
FormatDirectives ==
    /\ fmt_pc \in {"input", "done"}
    /\ lines' = format_directives(job_conf)
    /\ job_conf' = JobConfAfter(job_conf)
    /\ fmt_pc' = IF fmt_pc = "input" THEN "done" ELSE "again"
    /\ UNCHANGED <<poll_vars, sid_vars, sub_vars, srv_vars>>

vars == <<fmt_vars, poll_vars, sid_vars, sub_vars, srv_vars>>

FmtNext == FormatDirectives

SpecFormat == FmtInit /\ [][FmtNext]_vars

(***************************************************************************)
(* Reading the emitted lines back                                          *)
(***************************************************************************)
\* index of the first "=" of s, Len(s) + 1 when there is none
RECURSIVE FindEq(_, _)
FindEq(s, i) ==
    IF i > Len(s) \/ s[i] = "=" THEN i ELSE FindEq(s, i + 1)

\* the key of a directive line: the text after "#SBATCH ", up to "="
LineKey(line) ==
    LET body == Drop(line, Len(DIRECTIVE_PREFIX))
    IN  Take(body, FindEq(body, 1) - 1)

\* the value of a directive line: the text after the first "=", None for a
\* bare key
LineValue(line) ==
    LET body == Drop(line, Len(DIRECTIVE_PREFIX))
        e == FindEq(body, 1)
    IN  IF e > Len(body) THEN None ELSE Drop(body, e)

\* the value of a decimal numeral
RECURSIVE DecValue(_)
DecValue(s) ==
    IF s = <<>> THEN 0
    ELSE 10 * DecValue(Take(s, Len(s) - 1)) + DigitVal(s[Len(s)])

\* positions of the lines whose key is --time
TimeLines == {i \in 1..Len(lines) : LineKey(lines[i]) = KEY_TIME}

UserDirectives == job_conf.directives
UserHasTime == KEY_TIME \in DictKeySet(UserDirectives)
UserTimeValue == DictGet(UserDirectives, KEY_TIME)

GroupIndices == { <<"0">>, <<"1">>, <<"1", "0">> }
BaseKeys == { KEY_TIME, KEY_NODES, KEY_MEM, KEY_JOB_NAME, KEY_OUTPUT, KEY_ERROR }

\* <<key, group, option>> for every hetjob_<N>_ key
GroupedKeys == {<<Hetjob(n, b), n, b>> : n \in GroupIndices, b \in BaseKeys}

IsGrouped(k) == \E t \in GroupedKeys : t[1] = k

\* the group index of a hetjob_<N>_ key, None for a key without prefix
GroupOf(k) ==
    IF IsGrouped(k) THEN (CHOOSE t \in GroupedKeys : t[1] = k)[2] ELSE None

\* the key without its group prefix
BaseOf(k) ==
    IF IsGrouped(k) THEN (CHOOSE t \in GroupedKeys : t[1] = k)[3] ELSE k

\* the lines that are not the separator, in order
NonSeparatorLines == SelectSeq(lines, LAMBDA l : l # SEP_HETJOB)

SeparatorCount == Cardinality({i \in 1..Len(lines) : lines[i] = SEP_HETJOB})

\* C6: the emitted directive lines are the job-name, stdout and stderr
\* lines, then a time-limit line only if the user set has no --time, then
\* one line per user directive in the user's order
C6_ClaimedOrder ==
    fmt_pc = "done" =>
        LET injected ==
                <<KEY_JOB_NAME, KEY_OUTPUT, KEY_ERROR>>
                \o (IF LimitIsSet(job_conf.execution_time_limit) /\ ~UserHasTime
                    THEN <<KEY_TIME>> ELSE <<>>)
            user == [i \in 1..Len(UserDirectives) |->
                        BaseOf(UserDirectives[i][1])]
        IN  [i \in 1..Len(NonSeparatorLines) |-> LineKey(NonSeparatorLines[i])]
            = injected \o user

\* the keys of the merged mapping the lines are made from, in order
MergedKeys == DictKeys(MergedDirectives(job_conf))

\* the j-th directive is the first one of a group other than "0", for the
\* sequence grp of the directives' groups
FirstOfGroup(grp, j) ==
    /\ grp[j] \notin {None, <<"0">>}
    /\ \A i \in 1..(j - 1) : grp[i] # grp[j]

\* C7: the separator is emitted exactly once per distinct group index other
\* than "0", immediately before the first directive of that group in input
\* order, and before no other directive (group 0, later directives of a
\* group, keys without prefix), however the groups interleave
C7_SeparatorOncePerGroup ==
    fmt_pc = "done" =>
        LET keys == MergedKeys
            grp == [j \in 1..Len(keys) |-> GroupOf(keys[j])]
            first == [j \in 1..Len(keys) |-> FirstOfGroup(grp, j)]
            \* where the line of the j-th directive must be: one line per
            \* directive, one separator per first directive of a group
            pos == [j \in 1..Len(keys) |->
                       j + Cardinality({i \in 1..j : first[i]})]
        IN  /\ SeparatorCount =
                 Cardinality({GroupOf(k) : k \in DictKeySet(UserDirectives)}
                             \ {None, <<"0">>})
            /\ Len(lines) = Len(keys) + SeparatorCount
            /\ \A j \in 1..Len(keys) :
                 /\ pos[j] <= Len(lines)
                 /\ lines[pos[j]] # SEP_HETJOB
                 /\ LineKey(lines[pos[j]]) = BaseOf(keys[j])
                 /\ first[j] => lines[pos[j] - 1] = SEP_HETJOB
                 /\ (~first[j] /\ pos[j] > 1)
                      => lines[pos[j] - 1] # SEP_HETJOB

\* C7 witness: group 1, then group 0, then group 1 again: one separator,
\* before the first directive of group 1
C7_Witness ==
    /\ fmt_pc = "done"
    /\ Len(UserDirectives) = 3
    /\ GroupOf(UserDirectives[1][1]) = <<"1">>
    /\ GroupOf(UserDirectives[2][1]) = <<"0">>
    /\ GroupOf(UserDirectives[3][1]) = <<"1">>
    /\ SeparatorCount = 1
    /\ lines[Len(lines) - 3] = SEP_HETJOB

\* the keys injected by format_directives that the user did not set
InjectedKeys ==
    ({KEY_JOB_NAME, KEY_OUTPUT, KEY_ERROR}
     \cup (IF LimitIsSet(job_conf.execution_time_limit)
           THEN {KEY_TIME} ELSE {}))
    \ {BaseOf(k) : k \in DictKeySet(UserDirectives)}

\* the keys parsed back from the emitted lines, without the separator lines
\* and the injected lines
ReparsedKeys ==
    {LineKey(lines[i]) : i \in 1..Len(lines)}
    \ ({LineKey(SEP_HETJOB)} \cup InjectedKeys)

\* C10 as stated: the keys parsed back from the lines are the user's keys
C10_RoundTripKeys ==
    fmt_pc = "done" => ReparsedKeys = DictKeySet(UserDirectives)

\* C10 amended: the keys parsed back from the lines are the user's keys
\* with the hetjob_<N>_ prefix removed
C10_RoundTripBaseKeys ==
    fmt_pc = "done" =>
        ReparsedKeys = {BaseOf(k) : k \in DictKeySet(UserDirectives)}

\* C10 witness: a set with prefixed and non-prefixed keys has been formatted
C10_Witness ==
    /\ fmt_pc = "done"
    /\ \E k \in DictKeySet(UserDirectives) : IsGrouped(k)
    /\ \E k \in DictKeySet(UserDirectives) : ~IsGrouped(k)
    /\ KEY_MEM \in ReparsedKeys

\* the line a user directive must give: the prefix, the key as emitted
\* (without its group prefix), and "=value" unless the value is empty
UserLine(i) ==
    DIRECTIVE_PREFIX \o BaseOf(UserDirectives[i][1])
    \o (IF UserDirectives[i][2] = <<>> THEN <<>>
        ELSE <<"=">> \o UserDirectives[i][2])

\* C11: no directive is dropped: every user directive has its own emitted
\* line, "key=value" or the bare key for an empty value (there are as many
\* lines with a given text as user directives that give that text), and the
\* number of non-separator lines is the number of distinct keys among the
\* injected keys and the user's keys
C11_NoDirectiveDropped ==
    fmt_pc = "done" =>
        LET ns == NonSeparatorLines
            user == UserDirectives
            want == [i \in 1..Len(user) |-> UserLine(i)]
            allKeys == {KEY_JOB_NAME, KEY_OUTPUT, KEY_ERROR}
                       \cup (IF LimitIsSet(job_conf.execution_time_limit)
                             THEN {KEY_TIME} ELSE {})
                       \cup DictKeySet(user)
        IN  /\ Len(ns) = Cardinality(allKeys)
            /\ \A i \in 1..Len(user) :
                 Cardinality({n \in 1..Len(ns) : ns[n] = want[i]})
                 = Cardinality({j \in 1..Len(user) : want[j] = want[i]})

\* C11 witness: three user directives, one a bare flag, one overriding an
\* injected key and two of different groups giving the same line text
C11_Witness ==
    /\ fmt_pc = "done"
    /\ Len(UserDirectives) = 3
    /\ \E i \in 1..3 : UserDirectives[i][2] = <<>>
    /\ \E i, j \in 1..3 :
         /\ i # j
         /\ UserLine(i) = UserLine(j)
         /\ IsGrouped(UserDirectives[i][1])
    /\ LimitIsSet(job_conf.execution_time_limit)
    /\ Len(NonSeparatorLines) = 7

(***************************************************************************)
(* SLURMHandler.filter_poll_many_output                                    *)
(***************************************************************************)
\* line boundaries of str.splitlines (ASCII part); "\r\n" is one boundary
LineBreaks == {"\n", "\r", "\f"}

\* out.splitlines(): the lines of s without their line breaks; cur is the
\* line read so far
RECURSIVE SplitLines(_, _)
SplitLines(s, cur) ==
    IF s = <<>> THEN (IF cur = <<>> THEN <<>> ELSE <<cur>>)
    ELSE IF Head(s) = "\r" /\ Len(s) >= 2 /\ s[2] = "\n"
         THEN <<cur>> \o SplitLines(Drop(s, 2), <<>>)
    ELSE IF Head(s) \in LineBreaks
         THEN <<cur>> \o SplitLines(Tail(s), <<>>)
    ELSE SplitLines(Tail(s), Append(cur, Head(s)))

splitlines(s) == SplitLines(s, <<>>)

\* a wrong pattern, ^(?P<id>\d+): leading spaces are not skipped
REC_ID_FROM_POLL_OUT_NoSpaces(line) ==
    LET r == RunLen(line, Digits)
    IN  IF r > 0 THEN Take(line, r) ELSE None

\* REC_ID_FROM_POLL_OUT = ^ *(?P<id>\d+) matched at the start of line:
\* group "id", or None when there is no match
REC_ID_FROM_POLL_OUT_match(line) ==
    LET sp == RunLen(line, {" "})
        r == RunLen(Drop(line, sp), Digits)
    IN  IF r > 0 THEN SubSeq(line, sp + 1, sp + r) ELSE None

\* the set job_ids after the loop over the lines
RECURSIVE PollJobIds(_)
PollJobIds(ls) ==
    IF ls = <<>> THEN {}
    ELSE (IF REC_ID_FROM_POLL_OUT_match(Head(ls)) # None
          THEN {REC_ID_FROM_POLL_OUT_match(Head(ls))} ELSE {})
         \cup PollJobIds(Tail(ls))

\* list(job_ids): the elements of the set once each, in an order the
\* language does not fix
ListsOf(set) ==
    {l \in [1..Cardinality(set) -> set] : {l[i] : i \in DOMAIN l} = set}

\* the possible results of filter_poll_many_output(out)
filter_poll_many_output(out) == ListsOf(PollJobIds(splitlines(out)))

(***************************************************************************)
(* Inputs of filter_poll_many_output: squeue prints one line per job       *)
(* component, "+<n>" after the id for the components of one job            *)
(***************************************************************************)
\* largest number of lines in a poll output
MaxPollLines == 3

PollLineTexts ==
    { <<"1", "2", "3">>,
      <<"1", "2", "3", "+", "0">>,
      <<"1", "2", "3", "+", "1">>,
      <<" ", " ", "4", "5", " ", "R">>,
      <<"J", "4">>,
      <<"\t", "7">>,
      <<" ", "+", "8">>,
      <<>> }

PollLineEnds == { <<"\n">>, <<"\r", "\n">> }

\* the lines ls, each followed by the line end e
RECURSIVE JoinLines(_, _)
JoinLines(ls, e) ==
    IF ls = <<>> THEN <<>> ELSE Head(ls) \o e \o JoinLines(Tail(ls), e)

PollOutputs ==
    UNION { { JoinLines(ls, e) : ls \in [1..n -> PollLineTexts],
                                 e \in PollLineEnds }
            : n \in 0..MaxPollLines }
    \cup { <<"1", "2", "3", "\n", " ", "1", "2", "3", "+", "1">> }

PollInit ==
    /\ poll_out \in PollOutputs
    /\ poll_ids = <<>>
    /\ poll_pc = "input"
    /\ FmtIdle
    /\ SidIdle
    /\ SubIdle
    /\ SrvIdle

\* one call of SLURMHandler.filter_poll_many_output(out)
FilterPollManyOutput ==
    /\ poll_pc = "input"
    /\ poll_ids' \in filter_poll_many_output(poll_out)
    /\ poll_pc' = "done"
    /\ UNCHANGED <<poll_out, fmt_vars, sid_vars, sub_vars, srv_vars>>

PollNext == FilterPollManyOutput

SpecPoll == PollInit /\ [][PollNext]_vars

\* position a of poll_out is the start of a line
LineStart(a) == a = 1 \/ poll_out[a - 1] \in LineBreaks

\* the leading digit runs of the lines of poll_out that start, after any
\* number of spaces, with a digit
LeadingDigitRuns ==
    { SubSeq(poll_out, s, e) : <<s, e>> \in
        { p \in (1..Len(poll_out)) \X (1..Len(poll_out)) :
            /\ p[1] <= p[2]
            /\ \A k \in p[1]..p[2] : poll_out[k] \in Digits
            /\ p[2] = Len(poll_out) \/ poll_out[p[2] + 1] \notin Digits
            /\ \E a \in 1..p[1] :
                 /\ LineStart(a)
                 /\ \A k \in a..(p[1] - 1) : poll_out[k] = " " } }

\* C8: the result holds no identifier twice, and its identifiers are exactly
\* the leading digit runs, after optional spaces, of the lines that start
\* with one
C8_PollIdsDeduplicated ==
    poll_pc = "done" =>
        /\ \A i, j \in 1..Len(poll_ids) : i # j => poll_ids[i] # poll_ids[j]
        /\ {poll_ids[i] : i \in 1..Len(poll_ids)} = LeadingDigitRuns

\* C8 witness: the lines 123, 123+0 and 123+1 gave the one identifier 123
C8_Witness ==
    /\ poll_pc = "done"
    /\ poll_out = <<"1", "2", "3", "\n",
                    "1", "2", "3", "+", "0", "\n",
                    "1", "2", "3", "+", "1", "\n">>
    /\ poll_ids = << <<"1", "2", "3">> >>

(***************************************************************************)
(* SLURMHandler.REC_ID_FROM_SUBMIT_OUT                                     *)
(***************************************************************************)
WORD_SUBMITTED == <<"S", "u", "b", "m", "i", "t", "t", "e", "d">>
WORD_BATCH == <<"b", "a", "t", "c", "h">>
WORD_JOB == <<"j", "o", "b">>

\* the text left after the literal word and one \s character at the start
\* of s, None when s does not start with them
AfterWordAndSpace(s, word) ==
    IF s # None /\ StartsWith(s, word) /\ Len(s) > Len(word)
       /\ s[Len(word) + 1] \in Whitespace
    THEN Drop(s, Len(word) + 1)
    ELSE None

\* a wrong pattern, (?P<id>\d) for (?P<id>\d+): one digit only
REC_ID_FROM_SUBMIT_OUT_OneDigit(s) ==
    LET rest == AfterWordAndSpace(
                    AfterWordAndSpace(
                        AfterWordAndSpace(s, WORD_SUBMITTED), WORD_BATCH),
                    WORD_JOB)
    IN  IF rest # None /\ RunLen(rest, Digits) > 0
        THEN Take(rest, 1)
        ELSE None

\* REC_ID_FROM_SUBMIT_OUT = \ASubmitted\sbatch\sjob\s(?P<id>\d+) matched
\* at the start of the text s: group "id", or None when there is no match
REC_ID_FROM_SUBMIT_OUT_match(s) ==
    LET rest == AfterWordAndSpace(
                    AfterWordAndSpace(
                        AfterWordAndSpace(s, WORD_SUBMITTED), WORD_BATCH),
                    WORD_JOB)
    IN  IF rest # None /\ RunLen(rest, Digits) > 0
        THEN Take(rest, RunLen(rest, Digits))
        ELSE None

\* the identifier of a submission: the pattern applied to the whole stdout
\* of the submit command, None for a parse failure
ExtractSubmitId(out) == REC_ID_FROM_SUBMIT_OUT_match(out)

\* stdout texts of the submit command: the sbatch message and texts that
\* differ from it in one or more places
SubmitOutputs ==
    { pre \o w1 \o s1 \o WORD_BATCH \o s2 \o WORD_JOB \o s3 \o id \o post :
        pre \in { <<>>, <<" ">>, <<"\n">>, <<"x", "\n">> },
        w1 \in { WORD_SUBMITTED, <<"s", "u", "b", "m", "i", "t", "t", "e", "d">> },
        s1 \in { <<" ">>, <<"\t">>, <<>>, <<" ", " ">> },
        s2 \in { <<" ">>, <<"\n">> },
        s3 \in { <<" ">>, <<"\t">>, <<>> },
        id \in { <<>>, <<"4">>, <<"4", "8", "2", "1">>, <<"x", "4">> },
        post \in { <<>>, <<"\n">>, <<"+", "0">> } }

SidInit ==
    /\ submit_out \in SubmitOutputs
    /\ submit_id = None
    /\ submit_pc = "input"
    /\ FmtIdle
    /\ PollIdle
    /\ SubIdle
    /\ SrvIdle

\* the identifier is extracted from the stdout of one submit command
ExtractId ==
    /\ submit_pc = "input"
    /\ submit_id' = ExtractSubmitId(submit_out)
    /\ submit_pc' = "done"
    /\ UNCHANGED <<submit_out, fmt_vars, poll_vars, sub_vars, srv_vars>>

SidNext == ExtractId

SpecSubmitId == SidInit /\ [][SidNext]_vars

\* "Submitted batch job ", with spaces
PHRASE == WORD_SUBMITTED \o <<" ">> \o WORD_BATCH \o <<" ">> \o WORD_JOB \o <<" ">>

\* the maximal digit run of submit_out from position p on
DigitRunAt(p) == Take(Drop(submit_out, p - 1), RunLen(Drop(submit_out, p - 1), Digits))

\* C9 as stated: an identifier is extracted exactly when the output begins
\* with "Submitted batch job " followed by a digit, and it is the maximal
\* digit run there
C9_ExactPhrase ==
    submit_pc = "done" =>
        IF StartsWith(submit_out, PHRASE)
           /\ DigitRunAt(Len(PHRASE) + 1) # <<>>
        THEN submit_id = DigitRunAt(Len(PHRASE) + 1)
        ELSE submit_id = None

\* the three words at the very start of submit_out, each followed by exactly
\* one whitespace character
StartsWithWords ==
    /\ Len(submit_out) >= Len(PHRASE)
    /\ SubSeq(submit_out, 1, 9) = WORD_SUBMITTED
    /\ submit_out[10] \in Whitespace
    /\ SubSeq(submit_out, 11, 15) = WORD_BATCH
    /\ submit_out[16] \in Whitespace
    /\ SubSeq(submit_out, 17, 19) = WORD_JOB
    /\ submit_out[20] \in Whitespace

\* C9 amended: an identifier is extracted exactly when the output begins,
\* at its first character, with the words Submitted, batch and job, each
\* followed by one whitespace character (a space, or a tab or newline), and
\* then a digit; the identifier is the maximal digit run there
C9_WordsAndWhitespace ==
    submit_pc = "done" =>
        IF StartsWithWords /\ DigitRunAt(Len(PHRASE) + 1) # <<>>
        THEN submit_id = DigitRunAt(Len(PHRASE) + 1)
        ELSE submit_id = None

\* C9 witness: "Submitted batch job 4821\n" gave 4821
C9_Witness ==
    /\ submit_pc = "done"
    /\ submit_out = PHRASE \o <<"4", "8", "2", "1", "\n">>
    /\ submit_id = <<"4", "8", "2", "1">>

(***************************************************************************)
(* job_submit.__init__: owner and locality                                 *)
(***************************************************************************)
\* a wrong resolution: the process-wide default owner beats the argument
ResolvedOwnerDefaultFirst(task_owner) ==
    IF global_task_owner # PyNone THEN global_task_owner
    ELSE IF task_owner # PyNone THEN task_owner
    ELSE SUITE_OWNER

\* self.task_owner of lines 89-97: the argument, else the process-wide
\* default, else the suite owner
ResolvedOwner(task_owner) ==
    IF task_owner # PyNone THEN task_owner
    ELSE IF global_task_owner # PyNone THEN global_task_owner
    ELSE SUITE_OWNER

\* a wrong locality: a remote host makes the submission remote also in
\* simulation mode
LocalJobSubmitIgnoringSimulation(remote_host) ==
    ~(remote_host # PyNone \/ global_remote_host # PyNone)

\* self.local_job_submit of lines 99-133: False for a remote host given by
\* the argument or the process-wide default, unless simulation mode is on
LocalJobSubmit(remote_host) ==
    \/ ~(remote_host # PyNone \/ global_remote_host # PyNone)
    \/ simulation_mode

\* the object after lines 88-156 of the constructor, for the arguments
\* task_owner and remote_host: owner and locality are resolved; pc is
\* "raised" when the home directory of the owner is not found
Located(task_owner, remote_host, class) ==
    LET owner == ResolvedOwner(task_owner)
        other == task_owner # PyNone \/ global_task_owner # PyNone
        remote == remote_host # PyNone \/ global_remote_host # PyNone
        base == [NewJob EXCEPT !.class = class, !.task_owner = owner,
                               !.other_owner = other,
                               !.arg_task_owner = task_owner,
                               !.arg_remote_host = remote_host]
    IN  IF ~LocalJobSubmit(remote_host)
        THEN [base EXCEPT !.local_job_submit = FALSE,
                          !.remote_cylc_dir = "assigned",
                          !.remote_host =
                              IF remote_host # PyNone THEN remote_host
                              ELSE global_remote_host,
                          !.pc = "located"]
        ELSE IF remote
        THEN \* simulation mode: remote hosts are ignored and homedir is not
             \* assigned
             [base EXCEPT !.local_job_submit = TRUE, !.pc = "located"]
        ELSE LET owner2 == IF simulation_mode THEN SUITE_OWNER ELSE owner
             IN  IF owner2 \in DOMAIN Passwd
                 THEN [base EXCEPT !.local_job_submit = TRUE,
                                   !.task_owner = owner2,
                                   !.homedir = Passwd[owner2],
                                   !.pc = "located"]
                 ELSE [base EXCEPT !.local_job_submit = TRUE,
                                   !.task_owner = owner2,
                                   !.pc = "raised",
                                   !.exc = "SystemExit"]

(***************************************************************************)
(* job_submit.__init__: the job log directory                              *)
(***************************************************************************)
EndsWith(s, suffix) ==
    /\ Len(s) >= Len(suffix)
    /\ Drop(s, Len(s) - Len(suffix)) = suffix

\* s without its trailing "/" characters
RECURSIVE rstrip_slash(_)
rstrip_slash(s) ==
    IF s # <<>> /\ s[Len(s)] = "/" THEN rstrip_slash(Take(s, Len(s) - 1))
    ELSE s

\* index of the first "/" of s from position i, Len(s) + 1 when there is none
RECURSIVE FindSlash(_, _)
FindSlash(s, i) ==
    IF i > Len(s) \/ s[i] = "/" THEN i ELSE FindSlash(s, i + 1)

\* the login names of the password database, as texts
NameText == ("suite" :> <<"s", "u", "i", "t", "e">>)
            @@ ("alice" :> <<"a", "l", "i", "c", "e">>)

\* os.path.expanduser: a leading "~" is replaced by $HOME, a leading
\* "~name" by the home directory of name when the password database knows it
expanduser(path) ==
    IF path = <<>> \/ Head(path) # "~" THEN path
    ELSE LET i == FindSlash(path, 2)
             name == SubSeq(path, 2, i - 1)
             known == {u \in DOMAIN NameText : NameText[u] = name}
             rest == Drop(path, i - 1)
         IN  IF i = 2
             THEN LET r == rstrip_slash(HOME) \o rest
                  IN  IF r = <<>> THEN <<"/">> ELSE r
             ELSE IF known = {} THEN path
             ELSE LET r == rstrip_slash(Passwd[CHOOSE u \in known : TRUE])
                           \o rest
                  IN  IF r = <<>> THEN <<"/">> ELSE r

\* re.sub(pattern, repl, s) for a pattern without special characters: every
\* occurrence of the pattern, from the left, is replaced
RECURSIVE re_sub(_, _, _)
re_sub(pattern, repl, s) ==
    IF s = <<>> THEN <<>>
    ELSE IF StartsWith(s, pattern)
    THEN repl \o re_sub(pattern, repl, Drop(s, Len(pattern)))
    ELSE <<Head(s)>> \o re_sub(pattern, repl, Tail(s))

\* the object after lines 158-184: self.joblog_dir is the directory of the
\* task or of the suite, made relative to a home directory; pc is "raised"
\* when self.homedir is read before any assignment
WithJoblogDir(t, j) ==
    LET arg == task_joblog_dir[t]
        jldir == IF arg # None /\ arg # <<>>
                 THEN expandvars(expanduser(arg))
                 ELSE joblog_dir
    IN  IF ~j.local_job_submit
        THEN [j EXCEPT !.joblog_dir = re_sub(HOME \o <<"/">>, <<>>, jldir)]
        ELSE IF j.other_owner
        THEN IF j.homedir = UnsetText
             THEN [j EXCEPT !.joblog_dir = jldir,
                            !.pc = "raised", !.exc = "AttributeError"]
             ELSE [j EXCEPT !.joblog_dir = re_sub(HOME, j.homedir, jldir)]
        ELSE [j EXCEPT !.joblog_dir = jldir]

(***************************************************************************)
(* job_submit.set_logfile_names                                            *)
(***************************************************************************)
DOT_OUT == <<".", "o", "u", "t">>
DOT_ERR == <<".", "e", "r", "r">>

\* the task identifiers as texts
TaskIdText == ("t1" :> <<"t", "1">>) @@ ("t2" :> <<"t", "2">>)

\* random name parts: six characters out of upper case letters and digits
RandomA == <<"A", "1", "B", "2", "C", "3">>
RandomB == <<"Z", "Z", "Z", "Z", "Z", "9">>
RandomParts == {RandomA, RandomB}

\* os.path.join(a, b)
path_join(a, b) ==
    IF b # <<>> /\ Head(b) = "/" THEN b
    ELSE IF a = <<>> \/ a[Len(a)] = "/" THEN a \o b
    ELSE a \o <<"/">> \o b

\* tempfile.mktemp(prefix, suffix, dir), for the random part it draws
mktemp(prefix, suffix, dir, rnd) == path_join(dir, prefix \o rnd \o suffix)

\* a wrong substitution: the first ".out" of the name is replaced
RECURSIVE SubFirstOut(_)
SubFirstOut(s) ==
    IF s = <<>> THEN <<>>
    ELSE IF StartsWith(s, DOT_OUT) THEN DOT_ERR \o Drop(s, Len(DOT_OUT))
    ELSE <<Head(s)>> \o SubFirstOut(Tail(s))

\* re.sub( '\.out$', '.err', s ): "$" matches at the end of s and before a
\* newline that ends s
SubOutAtEnd(s) ==
    IF EndsWith(s, DOT_OUT)
    THEN Take(s, Len(s) - Len(DOT_OUT)) \o DOT_ERR
    ELSE IF EndsWith(s, DOT_OUT \o <<"\n">>)
    THEN Take(s, Len(s) - Len(DOT_OUT) - 1) \o DOT_ERR \o <<"\n">>
    ELSE s

\* the object after set_logfile_names, for the random part rnd: the names
\* of the stdout and stderr logs, both given to self.logfiles.add_path
WithLogfileNames(t, j, rnd) ==
    LET out == IF j.local_job_submit
               THEN mktemp(TaskIdText[t] \o <<"-">>, DOT_OUT, j.joblog_dir, rnd)
               ELSE TaskIdText[t] \o <<"-">> \o rnd \o DOT_OUT
        err == IF j.local_job_submit
               THEN SubOutAtEnd(out)
               ELSE TaskIdText[t] \o <<"-">> \o rnd \o DOT_ERR
    IN  [j EXCEPT !.stdout_file = out,
                  !.stderr_file = err,
                  !.logfiles = @ \o <<out, err>>,
                  !.pc = "constructed"]

(***************************************************************************)
(* job_submit.__init__                                                     *)
(***************************************************************************)
\* the object after the constructor body, for the arguments task_owner and
\* remote_host and the random part rnd; pc is "constructed", or "raised"
\* with the exception in exc
Constructed(t, task_owner, remote_host, class, rnd) ==
    LET located == Located(task_owner, remote_host, class)
        logged == WithJoblogDir(t, located)
    IN  IF located.pc = "raised" THEN located
        ELSE IF logged.pc = "raised" THEN logged
        ELSE WithLogfileNames(t, logged, rnd)

\* an exception leaves the code: SystemExit ends the process
AliveAfter(j) == j.exc # "SystemExit"

\* job_submit(task_id, ..., task_joblog_dir, task_owner, remote_host, ...);
\* set_logfile_names draws one random part
Construct(t) ==
    /\ alive
    /\ job[t].pc = "new"
    /\ random_parts # <<>>
    /\ \E task_owner \in TaskOwnerArgs, remote_host \in RemoteHostArgs,
          class \in Classes :
         LET j == Constructed(t, task_owner, remote_host, class,
                              Head(random_parts))
         IN  /\ job' = [job EXCEPT ![t] = j]
             /\ alive' = AliveAfter(j)
             /\ random_parts' = IF j.pc = "constructed"
                                THEN Tail(random_parts) ELSE random_parts
    /\ UNCHANGED <<class_vars, task_joblog_dir, cwd, fmt_vars, poll_vars,
                   sid_vars, srv_vars>>

\* job log directories of the suite: under the submitter's home, elsewhere
JoblogDirs == { <<"/", "s", "/", "l">>, <<"/", "l">> }

\* job log directories of a task: none, one under "~", and one that holds
\* ".out" and the submitter's home further along
TaskJoblogDirArgs ==
    { None, <<"~", "/", "l">>,
      <<"/", "x", ".", "o", "u", "t", "/", "s", "/", "l">> }

\* the constructions of the tasks of one process, for every job log
\* directory and every random part
ConInit ==
    /\ simulation_mode \in BOOLEAN
    /\ global_task_owner \in {PyNone, "alice"}
    /\ global_remote_host \in {PyNone, "hostB"}
    /\ owned_task_execution_method = PyNone
    /\ joblog_dir \in JoblogDirs
    /\ task_joblog_dir \in [Tasks -> TaskJoblogDirArgs]
    /\ random_parts \in {<<a, b>> : a \in RandomParts, b \in RandomParts}
    /\ cwd = <<"/">>
    /\ alive = TRUE
    /\ job = [t \in Tasks |-> NewJob]
    /\ FmtIdle
    /\ PollIdle
    /\ SidIdle
    /\ SrvIdle

ConNext == \E t \in Tasks : Construct(t)

SpecConstruct == ConInit /\ [][ConNext]_vars

\* s without its last four characters
Stem(s) == SubSeq(s, 1, Len(s) - 4)

\* the last four characters of s
Suffix(s) == SubSeq(s, Len(s) - 3, Len(s))

\* C17: for every constructed object, local or remote, the stdout name ends
\* in ".out", the stderr name ends in ".err", and the two names are equal
\* up to that suffix (same directory, same task identifier, same random
\* part)
C17_LogNamePairing ==
    \A t \in Tasks :
        job[t].pc = "constructed" =>
            LET out == job[t].stdout_file
                err == job[t].stderr_file
            IN  /\ Len(out) > 4
                /\ Len(err) = Len(out)
                /\ Suffix(out) = <<".", "o", "u", "t">>
                /\ Suffix(err) = <<".", "e", "r", "r">>
                /\ Stem(err) = Stem(out)

\* C17 witness: a local object whose job log directory holds ".out" and a
\* remote object have both been given their log names
C17_Witness ==
    /\ \E t \in Tasks :
         /\ job[t].pc = "constructed"
         /\ job[t].local_job_submit
         /\ SubSeq(job[t].stdout_file, 1, 7)
              = <<"/", "x", ".", "o", "u", "t", "/">>
    /\ \E t \in Tasks :
         /\ job[t].pc = "constructed"
         /\ ~job[t].local_job_submit
         /\ job[t].stdout_file = TaskIdText[t] \o <<"-">> \o RandomB
                                 \o <<".", "o", "u", "t">>

\* the job log directory of task t before it is made relative to a home
\* directory: the task's own, with "~" and variables expanded, or the suite's
GivenJoblogDir(t) ==
    IF task_joblog_dir[t] # None /\ task_joblog_dir[t] # <<>>
    THEN expandvars(expanduser(task_joblog_dir[t]))
    ELSE joblog_dir

\* the text s begins with the text p
HasPrefix(s, p) ==
    /\ Len(s) >= Len(p)
    /\ \A i \in 1..Len(p) : s[i] = p[i]

\* C18: only a leading home directory of the job log directory is changed:
\* a remote object loses a leading "<submitter home>/", a local object of
\* another owner has a leading submitter home replaced by the owner's
\* home, and in every other case (local object of the submitter, or a path
\* that does not start with the submitter's home) the path is unchanged
C18_OnlyLeadingHome ==
    \A t \in Tasks :
        job[t].pc = "constructed" =>
            LET given == GivenJoblogDir(t)
            IN  job[t].joblog_dir =
                    IF ~job[t].local_job_submit
                    THEN IF HasPrefix(given, HOME \o <<"/">>)
                         THEN SubSeq(given, Len(HOME) + 2, Len(given))
                         ELSE given
                    ELSE IF job[t].task_owner # SUITE_OWNER
                            /\ HasPrefix(given, HOME)
                    THEN job[t].homedir
                         \o SubSeq(given, Len(HOME) + 1, Len(given))
                    ELSE given

\* the owner the first source that is set gives: the argument, the
\* process-wide default, the submitting identity
FirstOwnerSource(t) ==
    IF job[t].arg_task_owner # PyNone THEN job[t].arg_task_owner
    ELSE IF global_task_owner # PyNone THEN global_task_owner
    ELSE SUITE_OWNER

\* an owner was given, by the argument or by the process-wide default
OwnerGiven(t) ==
    job[t].arg_task_owner # PyNone \/ global_task_owner # PyNone

\* a remote host was given, by the argument or by the process-wide default
RemoteHostGiven(t) ==
    job[t].arg_remote_host # PyNone \/ global_remote_host # PyNone

C13_LocalityAndSimulation ==
    \A t \in Tasks :
        /\ job[t].pc # "new" =>
             (~job[t].local_job_submit
                 <=> (RemoteHostGiven(t) /\ ~simulation_mode))
        /\ simulation_mode =>
             /\ job[t].pc # "new" => job[t].local_job_submit
             /\ job[t].pc \notin {"remote", "scp_done"}
             /\ \A i \in 1..Len(job[t].calls) :
                  job[t].calls[i][1] \notin {"scp", "ssh"}

\* C13 witness: in simulation mode a task with a remote host has been
\* handed to submit_jobfile_local, while another task has run its command
C13_Witness ==
    /\ simulation_mode
    /\ \E t \in Tasks :
         /\ job[t].arg_remote_host = "hostA"
         /\ job[t].local_job_submit
         /\ job[t].pc = "local"
    /\ \E t \in Tasks :
         /\ job[t].pc = "returned"
         /\ Len(job[t].calls) = 1

(***************************************************************************)
(* job_submit.submit                                                       *)
(***************************************************************************)
\* the path jobfile.write() returns for the task
WrittenJobfile(t) == [dir |-> "/tmp", base |-> t \o ".job"]

\* construct_jobfile_submission_command of a derived class: the submit
\* command of the method, for the job file path
DerivedCommand(jobfile_path) == <<"submit", PathText(jobfile_path)>>

\* a wrong rewriting: the whole local path is put under $HOME
RemoteJobfilePathNoBasename(p) == [dir |-> "$HOME", base |-> PathText(p)]

\* '$HOME/' + os.path.basename( self.jobfile_path )
RemoteJobfilePath(p) == [dir |-> "$HOME", base |-> basename(p)]

\* the object when submit() calls submit_jobfile_local or
\* submit_jobfile_remote, or when an exception leaves it
Submitted(t, j, dry_run) ==
    IF j.remote_cylc_dir = Unset /\ j.class # "derived_dirs"
    THEN \* self.remote_cylc_dir is read for the job file
         [j EXCEPT !.pc = "raised", !.exc = "AttributeError"]
    ELSE LET written == WrittenJobfile(t)
             cmd_path == IF j.local_job_submit THEN written
                         ELSE RemoteJobfilePath(written)
         IN  IF j.class = "job_submit"
             THEN [j EXCEPT !.pc = "raised", !.exc = "SystemExit",
                            !.dry_run = dry_run,
                            !.jobfile_path = cmd_path,
                            !.local_jobfile_path =
                                IF j.local_job_submit THEN UnsetPath ELSE written]
             ELSE IF j.local_job_submit
             THEN [j EXCEPT !.pc = "local", !.dry_run = dry_run,
                            !.jobfile_path = written,
                            !.command = DerivedCommand(cmd_path)]
             ELSE [j EXCEPT !.pc = "remote", !.dry_run = dry_run,
                            !.local_jobfile_path = written,
                            !.remote_jobfile_path = cmd_path,
                            !.jobfile_path = written,
                            !.command = DerivedCommand(cmd_path)]

\* submit(dry_run), up to the call of submit_jobfile_local / _remote
Submit(t) ==
    /\ alive
    /\ job[t].pc = "constructed"
    /\ \E dry_run \in BOOLEAN :
         LET j == Submitted(t, job[t], dry_run)
         IN  /\ job' = [job EXCEPT ![t] = j]
             /\ alive' = AliveAfter(j)
    /\ UNCHANGED <<class_vars, task_joblog_dir, random_parts,
                   cwd, fmt_vars, poll_vars, sid_vars, srv_vars>>

(***************************************************************************)
(* Classification of the result of subprocess.call                         *)
(***************************************************************************)
\* a wrong classification: only a positive return code is a failure
SuccessOfIgnoringSignals(res) ==
    IF res = OSError THEN "False"
    ELSE IF res[1] > 0 THEN "False"
    ELSE "True"

\* res < 0: terminated by signal; res > 0: failed; res == 0: success;
\* OSError: failure
SuccessOf(res) ==
    IF res = OSError THEN "False"
    ELSE IF res[1] < 0 THEN "False"
    ELSE IF res[1] > 0 THEN "False"
    ELSE "True"

\* a wrong test: the command is run in a dry run too
CommandIsRunAlways(dry_run) == TRUE

\* the test `if dry_run:` before each subprocess.call: the command is
\* only printed in a dry run
CommandIsRun(dry_run) == ~dry_run

(***************************************************************************)
(* job_submit.submit_jobfile_local                                         *)
(***************************************************************************)
\* a wrong handler: the failure is printed and the submission goes on
ChdirFailedCarryOn(j) == [j EXCEPT !.pc = "chdir_done"]

\* except OSError, e: the failure is printed and False is returned
ChdirFailed(j) == [j EXCEPT !.pc = "returned", !.returned = "False"]

\* a wrong effect: the directory change stays with the submission and the
\* working directory of the process is as before
WorkingDirIsolated(dir) == cwd

\* the working directory of the process after os.chdir( dir ) succeeded;
\* nothing changes it back (the `os.chdir( cwd )` of the end is disabled)
WorkingDirAfterChdir(dir) == dir

\* the start of submit_jobfile_local: the job file is added to the
\* viewable log files, then os.chdir( self.homedir ), which the system may
\* refuse with OSError
LocalChdir(t) ==
    /\ alive
    /\ job[t].pc = "local"
    /\ LET logged == Append(job[t].logfiles, PathText(job[t].jobfile_path))
       IN  IF job[t].homedir = UnsetText
           THEN /\ job' = [job EXCEPT ![t].logfiles = logged,
                                      ![t].pc = "raised",
                                      ![t].exc = "AttributeError"]
                /\ cwd' = cwd
           ELSE \E ok \in BOOLEAN :
                  IF ok
                  THEN /\ cwd' = WorkingDirAfterChdir(job[t].homedir)
                       /\ job' = [job EXCEPT ![t].logfiles = logged,
                                             ![t].pc = "chdir_done",
                                             ![t].changed_dir = TRUE]
                  ELSE /\ cwd' = cwd
                       /\ job' = [job EXCEPT
                                    ![t] = ChdirFailed([@ EXCEPT
                                               !.logfiles = logged])]
    /\ UNCHANGED <<class_vars, task_joblog_dir, random_parts,
                   alive, fmt_vars, poll_vars, sid_vars, srv_vars>>

\* a wrong wrapping: sudo is used whatever method is configured
WrappedCommandAlwaysSudo(j) ==
    IF j.task_owner # SUITE_OWNER
    THEN <<"sudo", "-u", j.task_owner>> \o j.command
    ELSE j.command

\* self.command after the wrapping for a task owned by another user; for
\* an unknown owned_task_execution_method <<"SystemExit">>, and
\* <<"TypeError">> when it is None (the text of the error is built by
\* concatenating it to a string)
WrappedCommand(j) ==
    IF j.task_owner # SUITE_OWNER
    THEN IF owned_task_execution_method = "sudo"
         THEN <<"sudo", "-u", j.task_owner>> \o j.command
         ELSE IF owned_task_execution_method = "ssh"
         THEN <<"ssh", j.task_owner \o "@localhost">> \o j.command
         ELSE IF owned_task_execution_method = PyNone
         THEN <<"TypeError">>
         ELSE <<"SystemExit">>
    ELSE j.command

\* the rest of submit_jobfile_local: the command is wrapped for another
\* owner and, unless dry_run, executed once through the shell; a command
\* that returns 0 may have left a job running in the background
LocalExec(t) ==
    /\ alive
    /\ job[t].pc = "chdir_done"
    /\ LET cmd == WrappedCommand(job[t])
       IN  IF cmd \in {<<"SystemExit">>, <<"TypeError">>}
           THEN /\ job' = [job EXCEPT ![t].pc = "raised",
                                      ![t].exc = cmd[1]]
                /\ alive' = (cmd # <<"SystemExit">>)
           ELSE /\ alive' = alive
                /\ IF ~CommandIsRun(job[t].dry_run)
                   THEN job' = [job EXCEPT ![t].command = cmd,
                                           ![t].success = "True",
                                           ![t].returned = "True",
                                           ![t].pc = "returned"]
                   ELSE \E res \in CallResults, detached \in BOOLEAN :
                          /\ detached => res = <<0>>
                          /\ job' = [job EXCEPT
                                ![t].command = cmd,
                                ![t].calls = Append(@, <<"submit", res>>),
                                ![t].call_cwd = cwd,
                                ![t].success = SuccessOf(res),
                                ![t].returned = SuccessOf(res),
                                ![t].bg = IF detached THEN "running" ELSE "none",
                                ![t].pc = "returned"]
    /\ UNCHANGED <<class_vars, task_joblog_dir, random_parts,
                   cwd, fmt_vars, poll_vars, sid_vars, srv_vars>>

\* the job that the command left in the background ends, well or not
BackgroundJobEnds(t) ==
    /\ job[t].bg = "running"
    /\ \E outcome \in {"succeeded", "failed"} :
         job' = [job EXCEPT ![t].bg = outcome]
    /\ UNCHANGED <<class_vars, task_joblog_dir, random_parts,
                   cwd, alive, fmt_vars, poll_vars, sid_vars, srv_vars>>

\* task t is a local submission that has passed the chdir and has left
\* submit_jobfile_local, by a return or by an exception
LocalRunLeft(t) ==
    /\ job[t].local_job_submit
    /\ job[t].changed_dir
    /\ job[t].pc \in {"returned", "raised"}

\* C14: a local submission that has changed directory executes (or, in a
\* dry run, only prints) the submission command of the method as it is when
\* the owner is the submitter, after "sudo -u <owner>" for another owner
\* and the method 'sudo', after "ssh <owner>@localhost" for the method
\* 'ssh'; for another owner and any other method an exception leaves it
\* (SystemExit for a configured method) and no command is executed
C14_OwnerWrapping ==
    \A t \in Tasks :
        LocalRunLeft(t) =>
            LET backend == DerivedCommand(job[t].jobfile_path)
                owner == job[t].task_owner
                ran == /\ job[t].pc = "returned"
                       /\ Len(job[t].calls) = IF job[t].dry_run THEN 0 ELSE 1
            IN  IF owner = SUITE_OWNER
                THEN ran /\ job[t].command = backend
                ELSE IF owned_task_execution_method = "sudo"
                THEN ran /\ job[t].command
                              = <<"sudo", "-u", owner>> \o backend
                ELSE IF owned_task_execution_method = "ssh"
                THEN ran /\ job[t].command
                              = <<"ssh", owner \o "@localhost">> \o backend
                ELSE /\ job[t].pc = "raised"
                     /\ job[t].calls = <<>>
                     /\ owned_task_execution_method # PyNone
                          => job[t].exc = "SystemExit"

\* C14 witness: one task of another owner has run its command through ssh
\* to localhost, the other task, of the submitter, has run it unwrapped
C14_Witness ==
    /\ owned_task_execution_method = "ssh"
    /\ \E t \in Tasks :
         /\ LocalRunLeft(t)
         /\ job[t].task_owner = "alice"
         /\ Len(job[t].calls) = 1
         /\ job[t].command[1] = "ssh"
    /\ \E t \in Tasks :
         /\ LocalRunLeft(t)
         /\ job[t].task_owner = SUITE_OWNER
         /\ Len(job[t].calls) = 1
         /\ job[t].command[1] = "submit"

(***************************************************************************)
(* job_submit.submit_jobfile_remote                                        *)
(***************************************************************************)
\* self.destination
Destination(j) == j.task_owner \o "@" \o j.remote_host

\* command_1: 'scp ' + self.jobfile_path + ' ' + self.destination + ':'
ScpCommand(j) == <<"scp", PathText(j.jobfile_path), Destination(j) \o ":">>

\* the first half of submit_jobfile_remote: command_1 copies the job file
\* to the owner's home on the remote host
RemoteScp(t) ==
    /\ alive
    /\ job[t].pc = "remote"
    /\ IF ~CommandIsRun(job[t].dry_run)
       THEN job' = [job EXCEPT ![t].command_1 = ScpCommand(job[t]),
                               ![t].success = "True", ![t].pc = "scp_done"]
       ELSE \E res \in CallResults :
              job' = [job EXCEPT
                        ![t].command_1 = ScpCommand(job[t]),
                        ![t].calls = Append(@, <<"scp", res>>),
                        ![t].success = SuccessOf(res),
                        ![t].pc = "scp_done"]
    /\ UNCHANGED <<class_vars, task_joblog_dir, random_parts,
                   cwd, alive, fmt_vars, poll_vars, sid_vars, srv_vars>>

\* the second half of submit_jobfile_remote: command_2 runs self.command
\* on the remote host, and `success` is returned
RemoteSsh(t) ==
    /\ alive
    /\ job[t].pc = "scp_done"
    /\ IF ~CommandIsRun(job[t].dry_run)
       THEN job' = [job EXCEPT ![t].returned = job[t].success,
                               ![t].pc = "returned"]
       ELSE \E res \in CallResults :
              job' = [job EXCEPT
                        ![t].calls = Append(@, <<"ssh", res>>),
                        ![t].success = SuccessOf(res),
                        ![t].returned = SuccessOf(res),
                        ![t].pc = "returned"]
    /\ UNCHANGED <<class_vars, task_joblog_dir, random_parts,
                   cwd, alive, fmt_vars, poll_vars, sid_vars, srv_vars>>

(***************************************************************************)
(* job_submit.cleanup                                                      *)
(***************************************************************************)
\* cleanup(), called when the job of the task has finished: it returns at
\* once (the deletion of the job file is disabled), so that no attribute of
\* the object, no registered path and no file is changed
Cleanup(t) ==
    /\ alive
    /\ job[t].pc = "returned"
    /\ job[t].bg # "running"
    /\ UNCHANGED <<job, class_vars, task_joblog_dir, random_parts,
                   cwd, alive, fmt_vars, poll_vars, sid_vars, srv_vars>>

\* task t is a dry run that has returned from submit_jobfile_remote, or
\* from submit_jobfile_local with the submitter as owner
DryRunReturned(t) ==
    /\ job[t].dry_run
    /\ job[t].pc = "returned"
    /\ (job[t].local_job_submit => job[t].task_owner = SUITE_OWNER)

\* the paths registered up to the end of submit are those of the stdout and
\* stderr logs, registered by the constructor, followed by extra
RegisteredAre(t, extra) ==
    /\ Len(job[t].logfiles) = 2 + Len(extra)
    /\ job[t].logfiles[1] = job[t].stdout_file
    /\ job[t].logfiles[2] = job[t].stderr_file
    /\ \A i \in 1..Len(extra) : job[t].logfiles[2 + i] = extra[i]

\* C15 as stated: a dry run, remote or local with the submitter as owner,
\* returns success, invokes no subprocess and, when local, registers only
\* the job script path
C15_DryRunSucceeds ==
    \A t \in Tasks :
        DryRunReturned(t) =>
            /\ job[t].returned = "True"
            /\ job[t].calls = <<>>
            /\ job[t].local_job_submit
                 => RegisteredAre(t, <<PathText(job[t].jobfile_path)>>)

\* C15 amended: such a dry run invokes no subprocess and, when local,
\* registers only the job script path; a remote one returns success, a
\* local one returns success when the chdir to the owner's home succeeded
\* and failure when it failed
C15_DryRunSucceedsAfterChdir ==
    \A t \in Tasks :
        DryRunReturned(t) =>
            /\ job[t].calls = <<>>
            /\ IF job[t].local_job_submit
               THEN /\ job[t].returned = "True" <=> job[t].changed_dir
                    /\ job[t].returned = "False" <=> ~job[t].changed_dir
                    /\ RegisteredAre(t, <<PathText(job[t].jobfile_path)>>)
               ELSE /\ job[t].returned = "True"
                    /\ RegisteredAre(t, <<>>)

\* C15 witness: a local dry run of the submitter and a remote dry run have
\* both returned success
C15_Witness ==
    /\ \E t \in Tasks :
         /\ DryRunReturned(t)
         /\ job[t].local_job_submit
         /\ job[t].returned = "True"
         /\ Len(job[t].logfiles) = 3
    /\ \E t \in Tasks :
         /\ DryRunReturned(t)
         /\ ~job[t].local_job_submit
         /\ job[t].returned = "True"

\* the job file of a task in the home directory of the remote host
HomeRelative(p) == [dir |-> "$HOME", base |-> p.base]

\* submit() of task t has written the job file
JobfileWritten(t) == job[t].jobfile_path # UnsetPath

\* C16: in a remote submission the submission command was constructed for
\* '$HOME/' + basename of the job file (the value of jobfile_path while
\* construct_jobfile_submission_command runs, and when it raises); after
\* the construction jobfile_path is the local path again, the scp command
\* copies that path, and remote_jobfile_path keeps the home-relative path.
\* In a local submission jobfile_path is the written path at every step
C16_JobfilePaths ==
    /\ [](\A t \in Tasks :
            JobfileWritten(t) =>
                LET written == WrittenJobfile(t)
                IN  IF job[t].local_job_submit
                    THEN /\ job[t].jobfile_path = written
                         /\ job[t].pc # "raised"
                              => job[t].command[Len(job[t].command)]
                                   = PathText(written)
                    ELSE IF job[t].pc = "raised"
                    THEN /\ job[t].jobfile_path = HomeRelative(written)
                         /\ job[t].local_jobfile_path = written
                         /\ job[t].command = <<>>
                    ELSE /\ job[t].command
                              = DerivedCommand(HomeRelative(written))
                         /\ job[t].jobfile_path = written
                         /\ job[t].local_jobfile_path = written
                         /\ job[t].remote_jobfile_path = HomeRelative(written)
                         /\ job[t].pc \in {"scp_done", "returned"}
                              => job[t].command_1[2] = PathText(written))
    /\ [][\A t \in Tasks :
            (JobfileWritten(t) /\ job[t].local_job_submit)
                => job'[t].jobfile_path = job[t].jobfile_path]_vars

\* C16 witness: a remote submission has copied the local job file and run
\* the command constructed for the home-relative path
C16_Witness ==
    \E t \in Tasks :
        /\ ~job[t].local_job_submit
        /\ job[t].pc = "returned"
        /\ job[t].command_1[2] = "/tmp/" \o t \o ".job"
        /\ job[t].command[2] = "$HOME/" \o t \o ".job"
        /\ Len(job[t].calls) = 2

(***************************************************************************)
(* The submissions of the tasks of one process                             *)
(***************************************************************************)
SubInit ==
    /\ simulation_mode \in BOOLEAN
    /\ global_task_owner \in {PyNone, "alice"}
    /\ global_remote_host \in {PyNone, "hostB"}
    /\ owned_task_execution_method \in {PyNone, "sudo", "ssh", "rsh"}
    /\ joblog_dir = <<"/", "s", "/", "l">>
    /\ task_joblog_dir = [t \in Tasks |-> None]
    /\ random_parts = <<RandomA, RandomA>>
    /\ cwd = <<"/">>
    /\ alive = TRUE
    /\ job = [t \in Tasks |-> NewJob]
    /\ FmtIdle
    /\ PollIdle
    /\ SidIdle
    /\ SrvIdle

SubNext ==
    \E t \in Tasks :
        \/ Construct(t)
        \/ Submit(t)
        \/ LocalChdir(t)
        \/ LocalExec(t)
        \/ BackgroundJobEnds(t)
        \/ RemoteScp(t)
        \/ RemoteSsh(t)
        \/ Cleanup(t)

SpecSubmit == SubInit /\ [][SubNext]_vars

\* the subprocess.call invocations of task t of one kind
CallsOf(t, kind) ==
    {i \in 1..Len(job[t].calls) : job[t].calls[i][1] = kind}

\* task t is a remote submission that is not a dry run
RemoteRun(t) ==
    /\ job[t].pc \in {"remote", "scp_done", "returned"}
    /\ ~job[t].local_job_submit
    /\ ~job[t].dry_run

\* C1: in a remote submission that is not a dry run, the ssh command is
\* invoked only after an scp command that returned 0
C1_SshOnlyAfterTransferOk ==
    \A t \in Tasks :
        RemoteRun(t) =>
            \A i \in CallsOf(t, "ssh") :
                \E k \in 1..(i - 1) : job[t].calls[k] = <<"scp", <<0>>>>

\* C2: a remote submission that is not a dry run returns success only if
\* scp and ssh both returned 0, and returns failure whenever scp failed
C2_SuccessNeedsBoth ==
    \A t \in Tasks :
        (RemoteRun(t) /\ job[t].pc = "returned") =>
            /\ job[t].returned = "True" =>
                 /\ \E i \in CallsOf(t, "scp") : job[t].calls[i][2] = <<0>>
                 /\ \E i \in CallsOf(t, "ssh") : job[t].calls[i][2] = <<0>>
            /\ (\E i \in CallsOf(t, "scp") : job[t].calls[i][2] # <<0>>)
                 => job[t].returned = "False"

\* task t is a local submission that is not a dry run, has changed
\* directory and has returned
LocalRunReturned(t) ==
    /\ job[t].pc = "returned"
    /\ job[t].local_job_submit
    /\ ~job[t].dry_run
    /\ job[t].changed_dir

\* C3: a local submission that is not a dry run and whose chdir succeeded
\* invokes the command once and returns success exactly when that
\* invocation returned 0 (a signal, a positive code and OSError give
\* failure); what later becomes of a job the command left in the background
\* never changes the value returned
C3_LocalOutcome ==
    /\ [](\A t \in Tasks :
            LocalRunReturned(t) =>
                /\ Len(job[t].calls) = 1
                /\ job[t].calls[1][1] = "submit"
                /\ job[t].returned = "True" <=> job[t].calls[1][2] = <<0>>
                /\ job[t].returned = "False" <=> job[t].calls[1][2] # <<0>>)
    /\ [][\A t \in Tasks :
            job[t].pc = "returned" =>
                /\ job'[t].pc = "returned"
                /\ job'[t].returned = job[t].returned]_vars

\* C3 witness: the command returned 0, success was returned, and the job it
\* left in the background has failed since
C3_Witness ==
    \E t \in Tasks :
        /\ LocalRunReturned(t)
        /\ job[t].calls = << <<"submit", <<0>>>> >>
        /\ job[t].returned = "True"
        /\ job[t].bg = "failed"

\* the submission attempt of task t met a configuration error: the home
\* directory of the owner is not found, the owned task execution method is
\* unknown, or the class has no submission command
ConfigurationError(t) == job[t].exc = "SystemExit"

\* C19: a configuration error of one task is returned to the caller as a
\* failed result of that task, and the process is never terminated, so that
\* the submissions of the other tasks can still be run
C19_ConfigurationErrorIsPerTask ==
    /\ alive
    /\ \A t \in Tasks :
         ConfigurationError(t) =>
             /\ job[t].pc = "returned"
             /\ job[t].returned = "False"

\* task t is a local submission whose chdir was refused and that has
\* returned
ChdirRefused(t) ==
    /\ job[t].local_job_submit
    /\ job[t].pc = "returned"
    /\ ~job[t].changed_dir

\* C20: a local submission whose chdir to the owner's home failed returns
\* failure, has executed no command and has left the command unwrapped; a
\* command is executed by a local submission only after its chdir
\* succeeded; and the failing step leaves the process, the working
\* directory and the other tasks as they were, so that their submissions
\* proceed
C20_ChdirFailure ==
    /\ [](\A t \in Tasks :
            /\ ChdirRefused(t) =>
                 /\ job[t].returned = "False"
                 /\ job[t].calls = <<>>
                 /\ job[t].command = DerivedCommand(job[t].jobfile_path)
            /\ (job[t].local_job_submit /\ job[t].calls # <<>>)
                 => job[t].changed_dir)
    /\ [][\A t \in Tasks :
            (~ChdirRefused(t) /\ ChdirRefused(t)') =>
                /\ alive' = alive
                /\ cwd' = cwd
                /\ \A u \in Tasks \ {t} : job'[u] = job[u]]_vars

\* C20 witness: the chdir of a task of another owner was refused, and the
\* submission of the other task has changed directory and run its command
C20_Witness ==
    /\ alive
    /\ \E t \in Tasks :
         /\ ChdirRefused(t)
         /\ job[t].task_owner = "alice"
         /\ owned_task_execution_method = "sudo"
    /\ \E t \in Tasks :
         /\ job[t].local_job_submit
         /\ job[t].changed_dir
         /\ job[t].pc = "returned"
         /\ job[t].returned = "True"
         /\ Len(job[t].calls) = 1

\* task t has reached the step that executes (or, in a dry run, prints) its
\* commands: a local submission after its chdir, a remote submission when
\* submit_jobfile_remote is entered
ReachedExecution(t) ==
    IF job[t].local_job_submit
    THEN job[t].changed_dir
    ELSE job[t].pc \in {"remote", "scp_done", "returned"}

\* C21: once a submission, local or remote, has reached the execution step,
\* the viewable log list of the task holds the stdout file, the stderr file
\* and the job script; and no step of submit or cleanup removes a path from
\* the list
C21_ViewableLogList ==
    /\ [](\A t \in Tasks :
            ReachedExecution(t) =>
                /\ Len(job[t].logfiles) >= 3
                /\ job[t].logfiles[1] = job[t].stdout_file
                /\ job[t].logfiles[2] = job[t].stderr_file
                /\ job[t].logfiles[3] = PathText(job[t].jobfile_path))
    /\ [][\A t \in Tasks :
            /\ Len(job'[t].logfiles) >= Len(job[t].logfiles)
            /\ \A i \in 1..Len(job[t].logfiles) :
                 job'[t].logfiles[i] = job[t].logfiles[i]]_vars

\* C22: the chdir of a local submission changes the working directory of
\* the whole process to the home directory of its owner; no later step of
\* the submission changes it back; and a command is run in the home
\* directory of whichever submission changed directory last, its own or
\* another's
C22_ChdirIsProcessWide ==
    /\ [][\A t \in Tasks :
            (job[t].pc = "local" /\ job'[t].pc = "chdir_done")
                => cwd' = job[t].homedir]_vars
    /\ [][\A t \in Tasks :
            (job[t].pc = "chdir_done" /\ job'[t].pc # "chdir_done")
                => cwd' = cwd]_vars
    /\ [](\A t \in Tasks :
            job[t].call_cwd # UnsetText =>
                \E u \in Tasks : /\ job[u].changed_dir
                                 /\ job[t].call_cwd = job[u].homedir)

\* C22 witness: two local submissions of owners with different home
\* directories have interleaved; the command of one was run in the home
\* directory of the other, and after its return the working directory is
\* still that directory
C22_Witness ==
    \E t, u \in Tasks :
        /\ t # u
        /\ job[t].local_job_submit /\ job[u].local_job_submit
        /\ job[t].homedir # job[u].homedir
        /\ job[t].pc = "returned"
        /\ Len(job[t].calls) = 1
        /\ job[t].call_cwd = job[u].homedir
        /\ job[u].pc = "chdir_done"
        /\ cwd = job[u].homedir

C25_SimulationIgnoresOwners ==
    simulation_mode =>
        \A t \in Tasks :
            /\ job[t].pc # "new" => job[t].task_owner = SUITE_OWNER
            /\ job[t].command # <<>> => job[t].command[1] = "submit"
            /\ LocalRunLeft(t) =>
                 /\ job[t].pc = "returned"
                 /\ job[t].command = DerivedCommand(job[t].jobfile_path)

\* C26: no construction and no submission is left by the exception of
\* reading an attribute (homedir, remote_host, remote_cylc_dir,
\* remote_suite_dir) that the constructor has not assigned
C26_FieldsAssigned ==
    \A t \in Tasks : job[t].exc # "AttributeError"

(***************************************************************************)
(* WorkflowRuntimeServer._receiver                                         *)
(***************************************************************************)
MISSING_FIELDS == "Request missing required field(s)."

\* 'No method by the name "%s"' % message['command']
NoMethodByTheName(name) == "No method by the name \"" \o name \o "\""

\* the exception that ends the try block of lines 217-222, "none" when the
\* block runs to its end: message['command'] (KeyError), getattr (TypeError
\* for a name that is not a string, AttributeError for an unknown name),
\* message['args'] (KeyError), args.update (AttributeError for a value
\* without that method), message['user'] (KeyError)
LookupException(msg) ==
    IF msg.command.type = "absent" THEN "KeyError"
    ELSE IF msg.command.type # "str" THEN "TypeError"
    ELSE IF ~HasAttr(msg.command.val) THEN "AttributeError"
    ELSE IF msg.args.type = "absent" THEN "KeyError"
    ELSE IF msg.args.type # "dict" THEN "AttributeError"
    ELSE IF msg.user.type = "absent" THEN "KeyError"
    ELSE "none"

\* a wrong update: the user is not added to the arguments
UpdatedArgsWithoutUser(msg) ==
    msg.args.keys \cup (IF msg.meta.type # "absent" THEN {"meta"} ELSE {})

\* the keys of args after args.update({'user': message['user']}) and
\* args['meta'] = message['meta']
UpdatedArgs(msg) ==
    msg.args.keys \cup {"user"}
        \cup (IF msg.meta.type # "absent" THEN {"meta"} ELSE {})

\* method(**args) of a function of the class: every keyword is a parameter
\* and every parameter is given
Binds(name, keys) == keys = UnexposedParams[name]

\* What method(**args) does for the attribute `name` and the keywords
\* `keys`, as the possible values of `call`.  Data is not callable; a
\* function whose parameters do not fit raises TypeError before its body; an
\* exposed endpoint, wrapped by the authorise decorator, runs and returns a
\* value or raises, or its wrapper refuses the keywords
CallOutcomes(name, keys) ==
    IF name \in DataAttributes
    THEN {[method |-> name, body |-> FALSE, result |-> "raised",
           value |-> "object is not callable"]}
    ELSE IF name \in DOMAIN UnexposedParams
    THEN IF ~Binds(name, keys)
         THEN {[method |-> name, body |-> FALSE, result |-> "raised",
                value |-> "got an unexpected keyword argument"]}
         ELSE IF name \in CoroutineFunctions
         THEN {[method |-> name, body |-> FALSE, result |-> "returned",
                value |-> "coroutine"]}
         ELSE {[method |-> name, body |-> TRUE, result |-> "returned",
                value |-> "None"]}
    ELSE {[method |-> name, body |-> TRUE, result |-> "returned",
           value |-> "result"],
          [method |-> name, body |-> TRUE, result |-> "raised",
           value |-> "failure"],
          [method |-> name, body |-> FALSE, result |-> "raised",
           value |-> "got an unexpected keyword argument"]}

\* _receiver(message)
Receiver ==
    /\ srv_pc = "input"
    /\ srv_pc' = "done"
    /\ LET exc == LookupException(message)
       IN  CASE exc = "KeyError" ->
                  /\ response' = ErrorResponse(MISSING_FIELDS, FALSE)
                  /\ UNCHANGED <<message, call, receiver_exc>>
             [] exc = "AttributeError" ->
                  /\ response' = ErrorResponse(
                                    NoMethodByTheName(message.command.val),
                                    FALSE)
                  /\ UNCHANGED <<message, call, receiver_exc>>
             [] exc = "TypeError" ->
                  /\ receiver_exc' = "TypeError"
                  /\ UNCHANGED <<message, call, response>>
             [] OTHER ->
                  /\ message' = [message EXCEPT
                                   !.args = Dict(UpdatedArgs(message))]
                  /\ \E c \in CallOutcomes(message.command.val,
                                           UpdatedArgs(message)) :
                       /\ call' = c
                       /\ response' = IF c.result = "raised"
                                      THEN ErrorResponse(c.value, TRUE)
                                      ELSE DataResponse(c.value)
                  /\ receiver_exc' = PyNone
    /\ UNCHANGED <<fmt_vars, poll_vars, sid_vars, sub_vars>>

\* the commands of the messages: none, not a string, exposed endpoints,
\* functions and data of the server that are not exposed, an unknown name
Commands ==
    {Absent, NotStr}
    \cup {Str(c) : c \in {"api", "graphql", "stop", "configure", "_receiver",
                         "register_endpoints", "port", "nosuch"}}

\* the keyword names in the args of the messages
ArgNames == {"endpoint", "reason", "message"}

ArgsValues == {Absent, List} \cup {Dict(k) : k \in SUBSET ArgNames}

Messages ==
    [command : Commands, args : ArgsValues, user : {Absent, Str("u")},
     meta : {Absent, Dict({})}]

SrvInit ==
    /\ message \in Messages
    /\ response = NoResponse
    /\ call = NoCall
    /\ receiver_exc = PyNone
    /\ srv_pc = "input"
    /\ FmtIdle
    /\ PollIdle
    /\ SidIdle
    /\ SubIdle

SrvNext == Receiver

SpecServer == SrvInit /\ [][SrvNext]_vars

\* the message lacks 'command', 'args' or 'user'
Lacks(msg) ==
    \/ msg.command.type = "absent"
    \/ msg.args.type = "absent"
    \/ msg.user.type = "absent"

\* the command of the message is a string that names no attribute
UnknownCommand(msg) ==
    msg.command.type = "str" /\ ~HasAttr(msg.command.val)

\* C23: for every message _receiver returns (it never raises) a dictionary
\* with exactly one of the keys 'data' and 'error': the error 'Request
\* missing required field(s).' for a message lacking 'command', 'args' or
\* 'user', the error 'No method by the name' for an unknown command, an
\* error with the message of the exception when the called method raised,
\* and otherwise the value the method returned as 'data'
C23_ReceiverResponse ==
    srv_pc = "done" =>
        /\ receiver_exc = PyNone
        /\ response.keys \in {{"data"}, {"error"}}
        /\ Lacks(message) =>
             /\ response.keys = {"error"}
             /\ response.message = MISSING_FIELDS
        /\ UnknownCommand(message) =>
             /\ response.keys = {"error"}
             /\ response.message = NoMethodByTheName(message.command.val)
        /\ call.result = "raised" =>
             /\ response.keys = {"error"}
             /\ response.message = call.value
        /\ (~Lacks(message) /\ ~UnknownCommand(message)
              /\ call.result # "raised") =>
             /\ call.result = "returned"
             /\ response = DataResponse(call.value)

\* the command of the message names an attribute that is not exposed
UnexposedCommand(msg) ==
    /\ msg.command.type = "str"
    /\ HasAttr(msg.command.val)
    /\ msg.command.val \notin ExposedEndpoints

\* C24: for a message whose command names an attribute of the server that
\* is not exposed, _receiver runs no body of a method and returns an error
\* response; a body that has run is that of an exposed endpoint
C24_OnlyExposedInvoked ==
    srv_pc = "done" =>
        /\ UnexposedCommand(message) =>
             /\ ~call.body
             /\ call.result # "returned"
             /\ receiver_exc = PyNone
             /\ response.keys = {"error"}
        /\ call.body => call.method \in ExposedEndpoints

\* C24 witness: the message asked for stop with the argument it takes; the
\* call was refused and an error was returned
C24_Witness ==
    /\ srv_pc = "done"
    /\ message.command = Str("stop")
    /\ message.args = Dict({"reason", "user"})
    /\ call.method = "stop"
    /\ call.result = "raised"
    /\ ~call.body
    /\ response.keys = {"error"}
    /\ response.traceback

====
